---- MODULE Spec2Model ----
(***************************************************************************)
(* Model of the EV charging station of src/evsim/ev_charger.py             *)
(* (class EV_Charger): construction, spawn_ev, step and reset.             *)
(*                                                                         *)
(* Numbers.  Python floats are modelled by exact integers in fixed units:  *)
(*   input actions            tenths                (ActDen)               *)
(*   normalized actions       fractions <<num, den>> with den > 0          *)
(*   rounded actions          1e-5                  (Scale, round(.., 5))  *)
(*   currents                 1e-5 A                                       *)
(*   power, energy            W (the vehicle's answer)                     *)
(*   profit                   W x price unit                               *)
(* The vehicle (class EV, imported from .ev) is not part of the source     *)
(* tree: its answers are nondeterministic choices (Behaviour).             *)
(* verbose is False (printing is not modelled).                            *)
(***************************************************************************)
EXTENDS Integers, Sequences, FiniteSets, TLC

VARIABLES
    n_ports, bi_directional,                    \* configuration
    current_power_output, evs_connected, n_evs_connected, current_step,
    current_charge_price, current_discharge_price, current_total_amps,
    total_energy_charged, total_energy_discharged, total_profits,
    total_evs_served, total_user_satisfaction,
    last,                                       \* the last call and its outcome
    calls,                                      \* step calls of this episode
    freed                                       \* ports a departure emptied

config == <<n_ports, bi_directional>>
status == <<current_power_output, evs_connected, n_evs_connected, current_step,
            current_charge_price, current_discharge_price, current_total_amps>>
statistics == <<total_energy_charged, total_energy_discharged, total_profits,
                total_evs_served, total_user_satisfaction>>
vars == <<config, status, statistics, last, calls, freed>>

----------------------------------------------------------------------------
(* Bounds and input sets *)

MaxStep == 2                 \* Spec: step calls per episode
MaxWideStep == 1             \* SpecWide: step calls per episode
PortCounts == {1, 2}         \* n_ports of the stations constructed
ThreePortCounts == {3}       \* SpecThree: n_ports of the station constructed
ActDen == 10                 \* input actions are given in tenths
ActionValues == {-6, 0, 6, 20}          \* SpecWide: -0.6, 0, 0.6, 2.0
LifeActionValues == {0, 6}              \* Spec: 0, 0.6
TradeActionValues == {-6, 0, 6}          \* SpecTrade: -0.6, 0, 0.6
ThreeActionValues == {-6, 3, 4, 6}      \* SpecThree: -0.6, 0.3, 0.4, 0.6
WeakActionValues == {-6, -2, 0, 2, 6}   \* SpecWeak: -0.6, -0.2, 0, 0.2, 0.6
BadLenValues == {6}          \* entries of wrong-length action vectors
Prices == {<<3, 1>>}         \* <<charge_price, discharge_price>>
RespHalves == {2, 3}         \* vehicle delivers 1x, 1.5x the request
SatValues == {50, 100}       \* satisfaction scores (percent)
Capacities == {50, 70}       \* battery_capacity of the vehicles spawned
CallerIds == {9}             \* id the caller constructed the vehicle with
EVStates == {<<70, 3>>, <<20, 1>>}      \* answers of EV.get_state

----------------------------------------------------------------------------
(* Program constants *)

min_charge_current == 8
max_charge_current == 32
min_discharge_current == -8
max_discharge_current == -32
voltage == 230
Scale == 100000              \* round(action, 5): units of 1e-5
Tolerance == 10              \* 0.0001 in units of 1e-5 A

None == <<>>                 \* an empty slot; an occupied slot is <<ev>>

Ports == 0 .. (n_ports - 1)

Abs(x) == IF x < 0 THEN -x ELSE x

----------------------------------------------------------------------------
(* The vehicle: an object with an id and a battery capacity. *)

EV(id, cap) == [id |-> id, battery_capacity |-> cap]

\* what one vehicle does during one station step: how much of the requested
\* current it delivers, whether is_departing answers, and its satisfaction
Behaviour ==
    {[resp |-> r, departs |-> FALSE, sat |-> 0] : r \in RespHalves}
    \cup {[resp |-> 2, departs |-> TRUE, sat |-> s] : s \in SatValues}

\* the vehicles of Spec deliver what is requested
LifeBehaviour == {b \in Behaviour : b.resp = 2}

IdleBehaviour == [resp |-> 2, departs |-> FALSE, sat |-> 0]

\* EV.step(amps, voltage, type) -> (actual_power, actual_amps)
EVStep(amps, b) ==
    LET a == (amps * b.resp) \div 2
    IN  [actual_power |-> (a * voltage) \div Scale, actual_amps |-> a]

----------------------------------------------------------------------------
(* Initial state: EV_Charger.__init__ *)

NoCall == [op |-> "init", err |-> "none"]

Init ==
    /\ n_ports \in PortCounts
    /\ bi_directional \in BOOLEAN
    /\ current_power_output = 0
    /\ evs_connected = [i \in Ports |-> None]
    /\ n_evs_connected = 0
    /\ current_step = 0
    /\ current_charge_price = 0
    /\ current_discharge_price = 0
    /\ current_total_amps = 0
    /\ total_energy_charged = 0
    /\ total_energy_discharged = 0
    /\ total_profits = 0
    /\ total_evs_served = 0
    /\ total_user_satisfaction = 0
    /\ last = NoCall
    /\ calls = 0
    /\ freed = {}

----------------------------------------------------------------------------
(* spawn_ev *)

\* the highest index holding None
RECURSIVE IndexOfNone_Last(_, _)
IndexOfNone_Last(evs, i) ==
    IF i >= Cardinality(DOMAIN evs) THEN -1
    ELSE LET later == IndexOfNone_Last(evs, i + 1)
         IN  IF later # -1 THEN later
             ELSE IF evs[i] = None THEN i ELSE -1

\* list.index(None): the lowest index holding None (-1: ValueError)
RECURSIVE IndexOfNone(_, _)
IndexOfNone(evs, i) ==
    IF i >= Cardinality(DOMAIN evs) THEN -1
    ELSE IF evs[i] = None THEN i ELSE IndexOfNone(evs, i + 1)

\* the assertion of line 259 off by one
HasFreePort_OffByOne == n_evs_connected <= n_ports

\* line 259
HasFreePort == n_evs_connected < n_ports

SpawnCall(err, ev_in, ev, index) ==
    [op |-> "spawn_ev", err |-> err, ev_in |-> ev_in, ev |-> ev,
     index |-> index, evs_before |-> evs_connected, freed_before |-> freed]

spawn_ev(ev) ==
    LET index == IndexOfNone(evs_connected, 0)
        ev2 == [ev EXCEPT !.id = index]
    IN  IF ~HasFreePort
        THEN /\ last' = SpawnCall("AssertionError", ev, ev, -1)
             /\ UNCHANGED <<config, status, statistics, calls, freed>>
        ELSE IF index = -1
        THEN /\ last' = SpawnCall("ValueError", ev, ev, -1)
             /\ UNCHANGED <<config, status, statistics, calls, freed>>
        ELSE /\ evs_connected' = [evs_connected EXCEPT ![index] = <<ev2>>]
             /\ n_evs_connected' = n_evs_connected + 1
             /\ freed' = freed \ {index}
             /\ last' = SpawnCall("none", ev, ev2, index)
             /\ UNCHANGED <<config, statistics, current_power_output,
                            current_step, current_charge_price,
                            current_discharge_price, current_total_amps,
                            calls>>

SpawnEV == \E id \in CallerIds, cap \in Capacities : spawn_ev(EV(id, cap))

----------------------------------------------------------------------------
(* reset *)

\* reset that forgets the occupied count
reset_KeepCount ==
    /\ current_power_output' = 0
    /\ current_total_amps' = 0
    /\ evs_connected' = [i \in Ports |-> None]
    /\ current_step' = 0
    /\ total_energy_charged' = 0
    /\ total_energy_discharged' = 0
    /\ total_profits' = 0
    /\ total_evs_served' = 0
    /\ total_user_satisfaction' = 0
    /\ last' = [op |-> "reset", err |-> "none"]
    /\ calls' = 0
    /\ freed' = {}
    /\ UNCHANGED <<config, n_evs_connected, current_charge_price,
                   current_discharge_price>>

\* reset that leaves the vehicles in their slots
reset_KeepSlots ==
    /\ current_power_output' = 0
    /\ current_total_amps' = 0
    /\ n_evs_connected' = 0
    /\ current_step' = 0
    /\ total_energy_charged' = 0
    /\ total_energy_discharged' = 0
    /\ total_profits' = 0
    /\ total_evs_served' = 0
    /\ total_user_satisfaction' = 0
    /\ last' = [op |-> "reset", err |-> "none"]
    /\ calls' = 0
    /\ freed' = {}
    /\ UNCHANGED <<config, evs_connected, current_charge_price,
                   current_discharge_price>>

reset ==
    /\ current_power_output' = 0
    /\ current_total_amps' = 0
    /\ evs_connected' = [i \in Ports |-> None]
    /\ n_evs_connected' = 0
    /\ current_step' = 0
    /\ total_energy_charged' = 0
    /\ total_energy_discharged' = 0
    /\ total_profits' = 0
    /\ total_evs_served' = 0
    /\ total_user_satisfaction' = 0
    /\ last' = [op |-> "reset", err |-> "none"]
    /\ calls' = 0
    /\ freed' = {}
    /\ UNCHANGED <<config, current_charge_price, current_discharge_price>>

Reset == reset

----------------------------------------------------------------------------
(* get_state and get_avg_user_satisfaction *)

\* lines 224-230: two entries per port, in port order, after the prefix
RECURSIVE HStack(_, _, _, _)
HStack(state, evs, evst, i) ==
    IF i = Cardinality(DOMAIN evs) THEN state
    ELSE HStack(state \o (IF evs[i] # None THEN evst[i] ELSE <<0, 0>>),
                evs, evst, i + 1)

\* lines 212-230; evst[i] is the answer of the vehicle of port i
get_state(evst) ==
    /\ last' = [op |-> "get_state", err |-> "none",
                ret |-> HStack(<<current_charge_price,
                                 current_discharge_price>>,
                               evs_connected, evst, 0)]
    /\ UNCHANGED <<config, status, statistics, calls, freed>>

GetState == \E evst \in [Ports -> EVStates] : get_state(evst)

\* lines 248-252: the quotient is returned as <<numerator, denominator>>
AvgUserSatisfaction ==
    IF total_evs_served = 0 THEN <<0, 1>>
    ELSE <<total_user_satisfaction, total_evs_served>>

get_avg_user_satisfaction ==
    /\ last' = [op |-> "get_avg_user_satisfaction", err |-> "none",
                ret |-> AvgUserSatisfaction]
    /\ UNCHANGED <<config, status, statistics, calls, freed>>

GetAvgUserSatisfaction == get_avg_user_satisfaction

----------------------------------------------------------------------------
(* step: helpers *)

\* len(actions) for an action vector indexed from 0
Len0(f) == Cardinality(DOMAIN f)

\* sum(actions): f[0] + ... + f[k-1]
RECURSIVE SumTo(_, _)
SumTo(f, k) == IF k = 0 THEN 0 ELSE SumTo(f, k - 1) + f[k - 1]

Sum(f) == SumTo(f, Len0(f))

\* the actions of empty ports left as supplied
ZeroEmpty_Keep(actions, evs) == actions

\* lines 122-125: the action of every empty port is overwritten by 0
ZeroEmpty(actions, evs) ==
    [i \in DOMAIN actions |-> IF evs[i] = None THEN 0 ELSE actions[i]]

\* lines 121-125: one punishment per empty port
RECURSIVE CountEmpty(_, _)
CountEmpty(evs, k) ==
    IF k = 0 THEN 0
    ELSE CountEmpty(evs, k - 1) + (IF evs[k - 1] = None THEN 1 ELSE 0)

\* a quotient n / d (d # 0) as a fraction with a positive denominator
Frac(n, d) == IF d < 0 THEN <<-n, -d>> ELSE <<n, d>>

\* no normalization at all
Normalize_Never(actions) ==
    [i \in DOMAIN actions |-> Frac(actions[i], ActDen)]

\* the discharging branch without its minus sign
Normalize_NoMinus(actions) ==
    LET S == Sum(actions)
    IN  IF S > ActDen
        THEN [i \in DOMAIN actions |-> Frac(actions[i], S)]
        ELSE IF S < -ActDen
        THEN [i \in DOMAIN actions |-> Frac(actions[i], S)]
        ELSE [i \in DOMAIN actions |-> Frac(actions[i], ActDen)]

\* lines 128-134: actions are in tenths, so sum(actions) > 1 is S > ActDen
Normalize(actions) ==
    LET S == Sum(actions)
    IN  IF S > ActDen
        THEN [i \in DOMAIN actions |-> Frac(actions[i], S)]
        ELSE IF S < -ActDen
        THEN [i \in DOMAIN actions |-> Frac(-actions[i], S)]
        ELSE [i \in DOMAIN actions |-> Frac(actions[i], ActDen)]

\* round(action, 5), in units of 1e-5; ties go to the even neighbour
Round5(fr) ==
    LET x == fr[1] * Scale
        q == x \div fr[2]
        r == x % fr[2]
    IN  IF 2 * r < fr[2] THEN q
        ELSE IF 2 * r > fr[2] THEN q + 1
        ELSE IF q % 2 = 0 THEN q ELSE q + 1

----------------------------------------------------------------------------
(* step: the loop over the ports, lines 140-185 *)

NotReached ==
    [reached |-> FALSE, action |-> 0, stepped |-> FALSE, req |-> 0,
     actual_power |-> 0, actual_amps |-> 0,
     profit |-> 0, charged |-> 0, discharged |-> 0, power |-> 0, amps |-> 0]

\* accumulator of the loop: the per-step sums, the statistics updated in
\* place, the locals actual_power / actual_amps, and what each port did
LoopStart(charged, discharged) ==
    [profit |-> 0, charged |-> charged, discharged |-> discharged,
     power |-> 0, amps |-> 0,
     actual_power |-> 0, actual_amps |-> 0, amps_bound |-> FALSE,
     err |-> "none",
     trace |-> [i \in Ports |-> NotReached]]

\* line 178
OverCurrent(amps) == amps - Tolerance > max_charge_current * Scale

\* the check of lines 178-179 left out
CheckCurrent_Off(acc) == acc

\* lines 178-179
CheckCurrent(acc) ==
    IF acc.err = "none" /\ OverCurrent(acc.amps)
    THEN [acc EXCEPT !.err = "Exception"]
    ELSE acc

\* lines 148-150 without the replacement of line 150
ChargeAmps_NoFloor(action) == action * max_charge_current

\* lines 148-150
ChargeAmps(action) ==
    LET amps == action * max_charge_current
    IN  IF amps < min_charge_current * Scale THEN 0 ELSE amps

\* lines 165-167 without the replacement of line 167
DischargeAmps_AsAsked(action) == action * Abs(max_charge_current)

\* lines 165-167
DischargeAmps(action) ==
    LET amps == action * Abs(max_charge_current)
    IN  IF amps > min_discharge_current * Scale
        THEN min_discharge_current * Scale ELSE amps

\* lines 147-159
ChargePort(i, acc, action, b, charge_price) ==
    LET amps == ChargeAmps(action)
        r == EVStep(amps, b)
        p == Abs(r.actual_power)
    IN  [acc EXCEPT
            !.profit = @ + p * charge_price,
            !.charged = @ + p,
            !.power = @ + r.actual_power,
            !.amps = @ + r.actual_amps,
            !.actual_power = r.actual_power,
            !.actual_amps = r.actual_amps,
            !.amps_bound = TRUE,
            !.trace[i] = [reached |-> TRUE, action |-> action,
                          stepped |-> TRUE, req |-> amps,
                          actual_power |-> r.actual_power,
                          actual_amps |-> r.actual_amps,
                          profit |-> p * charge_price, charged |-> p,
                          discharged |-> 0, power |-> r.actual_power,
                          amps |-> r.actual_amps]]

\* discharging without line 173: nothing is earned
DischargePort_NoProfit(i, acc, action, b, discharge_price) ==
    LET amps == DischargeAmps(action)
        r == EVStep(amps, b)
        p == Abs(r.actual_power)
    IN  [acc EXCEPT
            !.discharged = @ + p,
            !.power = @ + r.actual_power,
            !.amps = @ + r.actual_amps,
            !.actual_power = r.actual_power,
            !.actual_amps = r.actual_amps,
            !.amps_bound = TRUE,
            !.trace[i] = [reached |-> TRUE, action |-> action,
                          stepped |-> TRUE, req |-> amps,
                          actual_power |-> r.actual_power,
                          actual_amps |-> r.actual_amps,
                          profit |-> p * discharge_price, charged |-> 0,
                          discharged |-> p, power |-> r.actual_power,
                          amps |-> r.actual_amps]]

\* lines 161-176, bi_directional: the vehicle is asked to discharge
DischargePort(i, acc, action, b, discharge_price) ==
    LET amps == DischargeAmps(action)
        r == EVStep(amps, b)
        p == Abs(r.actual_power)
    IN  [acc EXCEPT
            !.profit = @ + p * discharge_price,
            !.discharged = @ + p,
            !.power = @ + r.actual_power,
            !.amps = @ + r.actual_amps,
            !.actual_power = r.actual_power,
            !.actual_amps = r.actual_amps,
            !.amps_bound = TRUE,
            !.trace[i] = [reached |-> TRUE, action |-> action,
                          stepped |-> TRUE, req |-> amps,
                          actual_power |-> r.actual_power,
                          actual_amps |-> r.actual_amps,
                          profit |-> p * discharge_price, charged |-> 0,
                          discharged |-> p, power |-> r.actual_power,
                          amps |-> r.actual_amps]]

\* lines 161-163 and 173-176, not bi_directional: line 163 assigns
\* actual_power twice and leaves actual_amps as it was, so line 176 adds the
\* actual_amps of the last port that stepped a vehicle in this call, or
\* raises UnboundLocalError when there was none
NoDischargePort(i, acc, action, discharge_price) ==
    LET t == [reached |-> TRUE, action |-> action, stepped |-> FALSE,
              req |-> 0, actual_power |-> 0, actual_amps |-> 0,
              profit |-> 0, charged |-> 0, discharged |-> 0, power |-> 0,
              amps |-> 0]
    IN  IF acc.amps_bound
        THEN [acc EXCEPT
                !.actual_power = 0,
                !.amps = @ + acc.actual_amps,
                !.trace[i] = [t EXCEPT !.actual_amps = acc.actual_amps,
                                       !.amps = acc.actual_amps]]
        ELSE [acc EXCEPT
                !.actual_power = 0,
                !.err = "UnboundLocalError",
                !.trace[i] = t]

\* the loop without the idle call of lines 144-145
PortStep_IdleSkipped(i, acc, action, evs, b, charge_price, discharge_price) ==
    IF ~(action >= -Scale /\ action <= Scale)
    THEN [acc EXCEPT !.err = "AssertionError(range)",
                     !.trace[i] = [NotReached EXCEPT !.reached = TRUE,
                                                     !.action = action]]
    ELSE CheckCurrent(
        IF action = 0 /\ evs[i] # None
        THEN [acc EXCEPT !.trace[i] = [NotReached EXCEPT !.reached = TRUE]]
        ELSE IF action > 0
        THEN IF evs[i] = None
             THEN [acc EXCEPT !.err = "AttributeError",
                              !.trace[i] = [NotReached EXCEPT
                                               !.reached = TRUE,
                                               !.action = action]]
             ELSE ChargePort(i, acc, action, b, charge_price)
        ELSE IF action < 0
        THEN IF ~bi_directional
             THEN NoDischargePort(i, acc, action, discharge_price)
             ELSE IF evs[i] = None
             THEN [acc EXCEPT !.err = "AttributeError",
                              !.trace[i] = [NotReached EXCEPT
                                               !.reached = TRUE,
                                               !.action = action]]
             ELSE DischargePort(i, acc, action, b, discharge_price)
        ELSE [acc EXCEPT !.trace[i] = [NotReached EXCEPT !.reached = TRUE]])

\* one iteration of the loop of lines 140-185
PortStep(i, acc, action, evs, b, charge_price, discharge_price) ==
    IF ~(action >= -Scale /\ action <= Scale)
    THEN [acc EXCEPT !.err = "AssertionError(range)",
                     !.trace[i] = [NotReached EXCEPT !.reached = TRUE,
                                                     !.action = action]]
    ELSE CheckCurrent(
        IF action = 0 /\ evs[i] # None
        THEN [acc EXCEPT !.trace[i] = [NotReached EXCEPT !.reached = TRUE,
                                                         !.stepped = TRUE]]
        ELSE IF action > 0
        THEN IF evs[i] = None
             THEN [acc EXCEPT !.err = "AttributeError",
                              !.trace[i] = [NotReached EXCEPT
                                               !.reached = TRUE,
                                               !.action = action]]
             ELSE ChargePort(i, acc, action, b, charge_price)
        ELSE IF action < 0
        THEN IF ~bi_directional
             THEN NoDischargePort(i, acc, action, discharge_price)
             ELSE IF evs[i] = None
             THEN [acc EXCEPT !.err = "AttributeError",
                              !.trace[i] = [NotReached EXCEPT
                                               !.reached = TRUE,
                                               !.action = action]]
             ELSE DischargePort(i, acc, action, b, discharge_price)
        ELSE [acc EXCEPT !.trace[i] = [NotReached EXCEPT !.reached = TRUE]])

RECURSIVE PortLoop(_, _, _, _, _, _, _)
PortLoop(i, acc, normalized_actions, evs, beh, charge_price, discharge_price) ==
    IF i = Len0(normalized_actions) \/ acc.err # "none"
    THEN acc
    ELSE PortLoop(i + 1,
                  PortStep(i, acc, Round5(normalized_actions[i]), evs,
                           beh[i], charge_price, discharge_price),
                  normalized_actions, evs, beh, charge_price, discharge_price)

----------------------------------------------------------------------------
(* step: the departure scan, lines 190-201 *)

ScanStart ==
    [evs |-> evs_connected, n |-> n_evs_connected,
     served |-> total_evs_served, satisfaction |-> total_user_satisfaction,
     user_satisfaction |-> <<>>, queried |-> <<>>]

\* the scan with the satisfaction list built back to front
RECURSIVE DepartureScan_Prepend(_, _, _)
DepartureScan_Prepend(i, d, beh) ==
    IF i = n_ports THEN d
    ELSE IF d.evs[i] = None THEN DepartureScan_Prepend(i + 1, d, beh)
    ELSE IF beh[i].departs
    THEN DepartureScan_Prepend(i + 1,
            [d EXCEPT !.evs[i] = None,
                      !.n = @ - 1,
                      !.served = @ + 1,
                      !.satisfaction = @ + beh[i].sat,
                      !.user_satisfaction = <<beh[i].sat>> \o @,
                      !.queried = Append(@, i)],
            beh)
    ELSE DepartureScan_Prepend(i + 1, [d EXCEPT !.queried = Append(@, i)],
                               beh)

\* the scan without the decrement of line 197
RECURSIVE DepartureScan_NoDecrement(_, _, _)
DepartureScan_NoDecrement(i, d, beh) ==
    IF i = n_ports THEN d
    ELSE IF d.evs[i] = None THEN DepartureScan_NoDecrement(i + 1, d, beh)
    ELSE IF beh[i].departs
    THEN DepartureScan_NoDecrement(i + 1,
            [d EXCEPT !.evs[i] = None,
                      !.served = @ + 1,
                      !.satisfaction = @ + beh[i].sat,
                      !.user_satisfaction = Append(@, beh[i].sat),
                      !.queried = Append(@, i)],
            beh)
    ELSE DepartureScan_NoDecrement(i + 1,
            [d EXCEPT !.queried = Append(@, i)], beh)

RECURSIVE DepartureScan(_, _, _)
DepartureScan(i, d, beh) ==
    IF i = n_ports THEN d
    ELSE IF d.evs[i] = None THEN DepartureScan(i + 1, d, beh)
    ELSE IF beh[i].departs
    THEN DepartureScan(i + 1,
            [d EXCEPT !.evs[i] = None,
                      !.n = @ - 1,
                      !.served = @ + 1,
                      !.satisfaction = @ + beh[i].sat,
                      !.user_satisfaction = Append(@, beh[i].sat),
                      !.queried = Append(@, i)],
            beh)
    ELSE DepartureScan(i + 1, [d EXCEPT !.queried = Append(@, i)], beh)

----------------------------------------------------------------------------
(* step(actions, charge_price, discharge_price) *)

\* the assertion of line 119 accepting shorter vectors
LenOk_AtMost(actions) == Len0(actions) <= n_ports

\* line 119
LenOk(actions) == Len0(actions) = n_ports

\* the counter left where it was
NextTimestep_Stay(t) == t

\* line 208
NextTimestep(t) == t + 1

\* the call record of a step that raised
StepFailed(err, actions_in, actions, normalized_actions, acc) ==
    [op |-> "step", err |-> err,
     actions_in |-> actions_in, actions |-> actions,
     normalized_actions |-> normalized_actions,
     trace |-> acc.trace,
     profit |-> acc.profit, user_satisfaction |-> <<>>,
     invalid_action_punishment |-> 0,
     evs_before |-> evs_connected, step_before |-> current_step,
     departs |-> [i \in Ports |-> FALSE],
     scores |-> [i \in Ports |-> 0], queried |-> <<>>]

step(actions_in, charge_price, discharge_price, beh) ==
    \* lines 112-117
    /\ current_charge_price' = charge_price
    /\ current_discharge_price' = discharge_price
    /\ calls' = calls + 1
    /\ UNCHANGED config
    /\ IF ~LenOk(actions_in)
       THEN \* line 119
            /\ current_power_output' = 0
            /\ current_total_amps' = 0
            /\ last' = StepFailed("AssertionError(len)", actions_in,
                                  actions_in, <<>>, LoopStart(0, 0))
            /\ UNCHANGED <<evs_connected, n_evs_connected, current_step,
                           statistics, freed>>
       ELSE LET actions == ZeroEmpty(actions_in, evs_connected)
                invalid_action_punishment == CountEmpty(evs_connected, n_ports)
                normalized_actions == Normalize(actions)
                acc == PortLoop(0,
                                LoopStart(total_energy_charged,
                                          total_energy_discharged),
                                normalized_actions, evs_connected, beh,
                                charge_price, discharge_price)
                d == DepartureScan(0, ScanStart, beh)
            IN  /\ current_power_output' = acc.power
                /\ current_total_amps' = acc.amps
                /\ total_energy_charged' = acc.charged
                /\ total_energy_discharged' = acc.discharged
                /\ IF acc.err # "none"
                   THEN /\ last' = StepFailed(acc.err, actions_in, actions,
                                              normalized_actions, acc)
                        /\ UNCHANGED <<evs_connected, n_evs_connected,
                                       current_step, total_profits,
                                       total_evs_served,
                                       total_user_satisfaction, freed>>
                   ELSE /\ total_profits' = total_profits + acc.profit
                        /\ evs_connected' = d.evs
                        /\ n_evs_connected' = d.n
                        /\ total_evs_served' = d.served
                        /\ total_user_satisfaction' = d.satisfaction
                        /\ current_step' = NextTimestep(current_step)
                        /\ freed' = freed \cup
                             {i \in Ports : evs_connected[i] # None
                                            /\ beh[i].departs}
                        /\ last' =
                             [op |-> "step", err |-> "none",
                              actions_in |-> actions_in, actions |-> actions,
                              normalized_actions |-> normalized_actions,
                              trace |-> acc.trace,
                              profit |-> acc.profit,
                              user_satisfaction |-> d.user_satisfaction,
                              invalid_action_punishment |->
                                  invalid_action_punishment,
                              evs_before |-> evs_connected,
                              step_before |-> current_step,
                              departs |-> [i \in Ports |->
                                  evs_connected[i] # None /\ beh[i].departs],
                              scores |-> [i \in Ports |-> beh[i].sat],
                              queried |-> d.queried]

\* the calls made to the vehicles by one step call, in the order the code
\* makes them: EV.step port by port (lines 140-176), then is_departing port
\* by port (lines 190-195)
RECURSIVE StepCalls(_, _)
StepCalls(trace, i) ==
    IF i = n_ports THEN <<>>
    ELSE (IF trace[i].stepped
          THEN <<[call |-> "step", port |-> i, arg |-> trace[i].req]>>
          ELSE <<>>) \o StepCalls(trace, i + 1)

QueryCalls(queried, t) ==
    [k \in 1 .. Len(queried) |->
        [call |-> "is_departing", port |-> queried[k], arg |-> t]]

VehicleCalls(call) ==
    StepCalls(call.trace, 0) \o QueryCalls(call.queried, call.step_before)

\* the behaviours of the vehicles connected: an empty port has no vehicle
Behaviours(B) ==
    {beh \in [Ports -> B \cup {IdleBehaviour}] :
        \A i \in Ports : evs_connected[i] = None => beh[i] = IdleBehaviour}

\* the wrong-length vectors tried: one entry short and one entry long
BadLenVectors ==
    [0 .. (n_ports - 2) -> BadLenValues] \cup [0 .. n_ports -> BadLenValues]

Step ==
    /\ calls < MaxStep
    /\ \E actions \in [Ports -> LifeActionValues], pr \in Prices,
          beh \in Behaviours(LifeBehaviour) :
          step(actions, pr[1], pr[2], beh)

WideStep ==
    /\ calls < MaxWideStep
    /\ \E actions \in [Ports -> ActionValues], pr \in Prices,
          beh \in Behaviours(Behaviour) :
          step(actions, pr[1], pr[2], beh)

StepBadLen ==
    /\ calls < MaxStep
    /\ \E actions \in BadLenVectors, pr \in Prices :
          step(actions, pr[1], pr[2], [i \in Ports |-> IdleBehaviour])

Next == SpawnEV \/ Step \/ StepBadLen \/ Reset

Spec == Init /\ [][Next]_vars

NextWide == SpawnEV \/ WideStep \/ StepBadLen \/ Reset

SpecWide == Init /\ [][NextWide]_vars

\* Spec with the two accessors
NextRead ==
    \/ SpawnEV \/ Step \/ StepBadLen \/ Reset
    \/ GetState \/ GetAvgUserSatisfaction

SpecRead == Init /\ [][NextRead]_vars

\* steps that ask for currents below the minimum currents
WeakStep ==
    /\ calls < MaxWideStep
    /\ \E actions \in [Ports -> WeakActionValues], pr \in Prices,
          beh \in Behaviours(LifeBehaviour) :
          step(actions, pr[1], pr[2], beh)

NextWeak == SpawnEV \/ WeakStep \/ StepBadLen \/ Reset

SpecWeak == Init /\ [][NextWeak]_vars

\* the vehicles of SpecTrade stay
TradeBehaviour == {b \in Behaviour : ~b.departs}

\* steps that charge and discharge, several per episode
TradeStep ==
    /\ calls < MaxStep
    /\ \E actions \in [Ports -> TradeActionValues], pr \in Prices,
          beh \in Behaviours(TradeBehaviour) :
          step(actions, pr[1], pr[2], beh)

NextTrade == SpawnEV \/ TradeStep \/ StepBadLen \/ Reset

SpecTrade == Init /\ [][NextTrade]_vars

\* a station of three ports
InitThree ==
    /\ n_ports \in ThreePortCounts
    /\ bi_directional \in BOOLEAN
    /\ current_power_output = 0
    /\ evs_connected = [i \in Ports |-> None]
    /\ n_evs_connected = 0
    /\ current_step = 0
    /\ current_charge_price = 0
    /\ current_discharge_price = 0
    /\ current_total_amps = 0
    /\ total_energy_charged = 0
    /\ total_energy_discharged = 0
    /\ total_profits = 0
    /\ total_evs_served = 0
    /\ total_user_satisfaction = 0
    /\ last = NoCall
    /\ calls = 0
    /\ freed = {}

\* steps of vehicles that deliver what is requested and stay
ThreeStep ==
    /\ calls < MaxWideStep
    /\ \E actions \in [Ports -> ThreeActionValues], pr \in Prices,
          beh \in Behaviours({IdleBehaviour}) :
          step(actions, pr[1], pr[2], beh)

NextThree == SpawnEV \/ ThreeStep \/ StepBadLen \/ Reset

SpecThree == InitThree /\ [][NextThree]_vars

----------------------------------------------------------------------------
(* Properties *)

StepCalled == last.op = "step"
StepEntered == StepCalled /\ last.err # "AssertionError(len)"
StepCompleted == StepCalled /\ last.err = "none"
Occupied(evs) == {i \in DOMAIN evs : evs[i] # None}
Empty(evs) == {i \in DOMAIN evs : evs[i] = None}

\* C1: in every reachable state n_evs_connected is the number of non-empty
\* slots of evs_connected, and so lies between 0 and n_ports.
C1_OccupiedCount ==
    /\ n_evs_connected = Cardinality(Occupied(evs_connected))
    /\ n_evs_connected >= 0
    /\ n_evs_connected <= n_ports

\* a step in which one of two vehicles departed
C1_Witness ==
    /\ StepCompleted
    /\ n_ports = 2
    /\ Cardinality(Occupied(last.evs_before)) = 2
    /\ Len(last.user_satisfaction) = 1
    /\ n_evs_connected = 1

\* C2: after every step that returns, current_total_amps does not exceed
\* max_charge_current by more than 1e-4.
C2_CurrentLimit ==
    StepCompleted =>
        current_total_amps <= max_charge_current * Scale + Tolerance

\* a completed step in which a vehicle delivered more than was requested
C2_Witness ==
    /\ StepCompleted
    /\ \E i \in Ports : /\ last.trace[i].req > 0
                        /\ last.trace[i].actual_amps > last.trace[i].req
    /\ current_total_amps > 0

\* C3: on a station that is not bi_directional, an occupied port with a
\* negative action does not make step fail, and contributes 0 to the step
\* profit, the energy discharged, the power output and the total current.
C3_NoDischarge ==
    (StepEntered /\ ~bi_directional) =>
        \A i \in Ports :
            (last.trace[i].reached /\ last.trace[i].action < 0
                /\ last.evs_before[i] # None)
            => /\ last.err # "UnboundLocalError"
               /\ last.trace[i].profit = 0
               /\ last.trace[i].discharged = 0
               /\ last.trace[i].power = 0
               /\ last.trace[i].amps = 0
               /\ last.trace[i].actual_power = 0
               /\ last.trace[i].actual_amps = 0

\* C4: every port empty at the start of step has its action set to 0 before
\* normalization, whatever was supplied, and the invalid-action count
\* returned is the number of ports empty at the start of the call.
C4_EmptyPorts ==
    StepEntered =>
        /\ \A i \in Empty(last.evs_before) :
              /\ last.actions[i] = 0
              /\ last.normalized_actions[i][1] = 0
        /\ \A i \in Occupied(last.evs_before) :
              last.actions[i] = last.actions_in[i]
        /\ last.err = "none" =>
              last.invalid_action_punishment
                  = Cardinality(Empty(last.evs_before))

\* a completed step on a station with an empty port that was given a
\* non-zero action, next to an occupied port
C4_Witness ==
    /\ StepCompleted
    /\ \E i \in Empty(last.evs_before) : last.actions_in[i] # 0
    /\ Occupied(last.evs_before) # {}
    /\ last.invalid_action_punishment = 1

\* sum of the fractions fr[0] .. fr[k-1]
RECURSIVE FracSum(_, _)
FracSum(fr, k) ==
    IF k = 0 THEN <<0, 1>>
    ELSE LET s == FracSum(fr, k - 1)
         IN  <<s[1] * fr[k - 1][2] + fr[k - 1][1] * s[2], s[2] * fr[k - 1][2]>>

\* C5: with S the sum of the actions after empty ports are zeroed: if S > 1
\* the normalized actions sum to 1 and each is the original divided by S; if
\* S < -1 they sum to -1 and keep the original ratios; otherwise they are
\* the original actions.
C5_Normalization ==
    StepEntered =>
        LET a == last.actions
            n == last.normalized_actions
            S == Sum(a)
            total == FracSum(n, n_ports)
        IN  /\ S > ActDen =>
                /\ total[1] = total[2]
                /\ \A i \in Ports : n[i][1] * S = a[i] * n[i][2]
            /\ S < -ActDen =>
                /\ total[1] = -total[2]
                /\ \A i \in Ports : n[i][1] * (-S) = a[i] * n[i][2]
            /\ (S > ActDen \/ S < -ActDen) =>
                \A i, j \in Ports :
                    n[i][1] * n[j][2] * a[j] = n[j][1] * n[i][2] * a[i]
            /\ (S >= -ActDen /\ S <= ActDen) =>
                \A i \in Ports : n[i][1] * ActDen = a[i] * n[i][2]

\* two different charging actions that sum to more than 1
C5_Witness ==
    /\ StepEntered
    /\ n_ports = 2
    /\ Sum(last.actions) > ActDen
    /\ last.actions[0] > 0
    /\ last.actions[1] > last.actions[0]


\* every rounded action of the last step lies in [-1, 1]
RoundedInRange ==
    /\ last.err # "AssertionError(range)"
    /\ \A i \in Ports :
          /\ Round5(last.normalized_actions[i]) >= -Scale
          /\ Round5(last.normalized_actions[i]) <= Scale

Min(S) == CHOOSE i \in S : \A j \in S : i <= j

\* C7: spawn_ev on a station with an empty port puts the vehicle in the
\* lowest-index empty slot, sets its id to that index, adds one to the
\* occupied count, returns the index, and leaves the other slots, the
\* timestep counter and the statistics unchanged.
C7_SpawnLowest ==
    [][(last'.op = "spawn_ev" /\ Empty(evs_connected) # {}) =>
          LET index == Min(Empty(evs_connected))
          IN  /\ last'.err = "none"
              /\ last'.index = index
              /\ last'.ev = [last'.ev_in EXCEPT !.id = index]
              /\ evs_connected'[index] = <<last'.ev>>
              /\ \A j \in Ports \ {index} :
                    evs_connected'[j] = evs_connected[j]
              /\ n_evs_connected' = n_evs_connected + 1
              /\ UNCHANGED <<current_step, statistics>>]_vars

\* a vehicle spawned into port 0 while port 1 holds another vehicle
C7_Witness ==
    /\ last.op = "spawn_ev"
    /\ last.err = "none"
    /\ n_ports = 2
    /\ last.index = 0
    /\ last.evs_before[1] # None
    /\ evs_connected[1] = last.evs_before[1]
    /\ evs_connected[0] # evs_connected[1]

\* C8: spawn_ev on a station whose occupied count equals n_ports fails with
\* an assertion error and leaves the slots, the occupied count, the
\* statistics and the vehicle's id unchanged.
C8_SpawnFull ==
    [][(last'.op = "spawn_ev" /\ n_evs_connected = n_ports) =>
          /\ last'.err = "AssertionError"
          /\ last'.ev = last'.ev_in
          /\ UNCHANGED <<evs_connected, n_evs_connected, statistics>>]_vars

\* a spawn_ev refused by a full two-port station
C8_Witness ==
    /\ last.op = "spawn_ev"
    /\ last.err = "AssertionError"
    /\ n_ports = 2
    /\ n_evs_connected = n_ports
    /\ Empty(evs_connected) = {}
    /\ last.ev.id \notin Ports

\* the k-th smallest element of D
KthPort(D, k) == CHOOSE i \in D : Cardinality({j \in D : j < i}) = k - 1

C10_PortReuse ==
    [][freed # {} =>
          /\ freed \subseteq Empty(evs_connected)
          /\ n_evs_connected < n_ports
          /\ last'.op = "spawn_ev" =>
                /\ last'.err = "none"
                /\ \A i \in freed :
                      (\A j \in Empty(evs_connected) : i <= j)
                          => last'.index = i]_vars

\* a vehicle spawned, after the second step of the episode, into the port a
\* departure had emptied on a station that had been full
C10_Witness ==
    /\ last.op = "spawn_ev"
    /\ last.err = "none"
    /\ n_ports = 2
    /\ calls = 2
    /\ last.index \in last.freed_before
    /\ n_evs_connected = n_ports
    /\ total_evs_served = 1


\* C11: reset puts every status field (power output, total current, both
\* prices, timestep counter, slots, occupied count) and every statistic back
\* to its value after construction, and changes no configuration field.
C11_ResetRestores ==
    [][last'.op = "reset" =>
          /\ current_power_output' = 0
          /\ current_total_amps' = 0
          /\ current_charge_price' = 0
          /\ current_discharge_price' = 0
          /\ current_step' = 0
          /\ evs_connected' = [i \in Ports |-> None]
          /\ n_evs_connected' = 0
          /\ total_energy_charged' = 0
          /\ total_energy_discharged' = 0
          /\ total_profits' = 0
          /\ total_evs_served' = 0
          /\ total_user_satisfaction' = 0
          /\ UNCHANGED config]_vars


\* C12: called right after reset, get_avg_user_satisfaction returns 0 and
\* get_state returns a vector of length 2 + 2 * n_ports whose entries after
\* the two prices are all 0; get_state changes no field of the station.
C12_ReadAfterReset ==
    [][/\ (last.op = "reset" /\ last'.op = "get_avg_user_satisfaction")
            => last'.ret[1] = 0
       /\ (last.op = "reset" /\ last'.op = "get_state")
            => /\ Len(last'.ret) = 2 + 2 * n_ports
               /\ \A k \in 3 .. Len(last'.ret) : last'.ret[k] = 0
       /\ last'.op = "get_state"
            => UNCHANGED <<config, status, statistics>>]_vars

\* get_state on a two-port station that was reset after a step: only the
\* prices of that step are left
C12_Witness ==
    /\ last.op = "get_state"
    /\ n_ports = 2
    /\ calls = 0
    /\ current_charge_price = 3
    /\ last.ret = <<3, 1, 0, 0, 0, 0>>


\* nothing was asked of any vehicle during the last step call
NoVehicleTouched ==
    /\ \A i \in Ports : ~last.trace[i].stepped
    /\ last.queried = <<>>

\* C13 (as claimed): a step call whose action vector has a length other than
\* n_ports fails at once: no vehicle is stepped or queried and no field of
\* the station differs from its value before the call.
C13_NothingChanges ==
    [][(last'.op = "step" /\ Len0(last'.actions_in) # n_ports) =>
          /\ last'.err = "AssertionError(len)"
          /\ NoVehicleTouched'
          /\ UNCHANGED <<config, status, statistics>>]_vars

\* C13 (amended): such a call fails at once, no vehicle is stepped or
\* queried, and the slots, the occupied count, the timestep counter and the
\* statistics are unchanged; the power output and the total current are
\* already set to 0 (and the prices already recorded) when it fails.
C13_SlotsAndStatisticsKept ==
    [][(last'.op = "step" /\ Len0(last'.actions_in) # n_ports) =>
          /\ last'.err = "AssertionError(len)"
          /\ NoVehicleTouched'
          /\ UNCHANGED <<config, evs_connected, n_evs_connected,
                         current_step, statistics>>
          /\ current_power_output' = 0
          /\ current_total_amps' = 0]_vars

\* a wrong-length call on a station that holds a vehicle and has charged
C13_Witness ==
    /\ StepCalled
    /\ last.err = "AssertionError(len)"
    /\ n_evs_connected >= 1
    /\ current_step = 1
    /\ total_energy_charged > 0
    /\ current_power_output = 0


\* the occupied ports that the last step asked to discharge
DischargeAsked ==
    {i \in Ports : /\ last.trace[i].reached
                   /\ last.trace[i].action < 0
                   /\ last.trace[i].stepped}

\* C14 (as claimed): on a bi_directional station the discharge current
\* requested from a vehicle never exceeds min_discharge_current in
\* magnitude.
C14_AtMostMinDischarge ==
    (StepEntered /\ bi_directional) =>
        \A i \in DischargeAsked :
            Abs(last.trace[i].req) <= Abs(min_discharge_current) * Scale

\* C14 (amended): on a bi_directional station the discharge current
\* requested from a vehicle is never below min_discharge_current in
\* magnitude: it is action x max_charge_current, replaced by
\* min_discharge_current when that is the weaker current.
C14_AtLeastMinDischarge ==
    (StepEntered /\ bi_directional) =>
        \A i \in DischargeAsked :
            LET asked == last.trace[i].action * max_charge_current
                floor == min_discharge_current * Scale
            IN  /\ Abs(last.trace[i].req) >= Abs(min_discharge_current) * Scale
                /\ last.trace[i].req = IF asked < floor THEN asked ELSE floor

\* a discharge action weaker than min_discharge_current, requested as
\* min_discharge_current
C14_Witness ==
    /\ StepCompleted
    /\ bi_directional
    /\ \E i \in DischargeAsked :
          /\ Abs(last.trace[i].action * max_charge_current)
                < Abs(min_discharge_current) * Scale
          /\ last.trace[i].req = min_discharge_current * Scale

\* every entry of the vector supplied lies in [-1, 1]
InUnit(actions) ==
    \A i \in DOMAIN actions : actions[i] >= -ActDen /\ actions[i] <= ActDen

\* no vehicle stepped in the last call delivered more than it was asked for
NoOverDelivery ==
    \A i \in Ports :
        last.trace[i].stepped =>
            Abs(last.trace[i].actual_amps) <= Abs(last.trace[i].req)

\* C15: a step whose action vector has all entries in [-1, 1], with vehicles
\* that never deliver more current than requested, never raises the
\* over-current exception.
C15_NoOverCurrent ==
    (StepEntered /\ InUnit(last.actions_in) /\ NoOverDelivery)
        => last.err # "Exception"

\* the positions of the calls of one kind made to the vehicle of port i
CallsOf(calls_made, kind, i) ==
    {k \in 1 .. Len(calls_made) :
        calls_made[k].call = kind /\ calls_made[k].port = i}

\* every EV.step call comes before every is_departing call
StepsBeforeQueries(calls_made) ==
    \A j, k \in 1 .. Len(calls_made) :
        (calls_made[j].call = "step" /\ calls_made[k].call = "is_departing")
            => j < k

\* the ports of the last step whose vehicle the code leaves alone: a negative
\* action on a station that is not bidirectional
NotDischarged ==
    {i \in Ports : ~bi_directional /\ last.trace[i].action < 0}

\* C16 as stated: in every completed step EV.step is called exactly once for
\* each port occupied at the start of the call (with 0 A when the action of
\* the port is 0), never for an empty port, and before any is_departing call.
C16_EveryOccupiedStepped ==
    StepCompleted =>
        LET cs == VehicleCalls(last)
        IN  /\ \A i \in Occupied(last.evs_before) :
                  /\ Cardinality(CallsOf(cs, "step", i)) = 1
                  /\ last.trace[i].action = 0 =>
                        \A k \in CallsOf(cs, "step", i) : cs[k].arg = 0
            /\ \A i \in Empty(last.evs_before) : CallsOf(cs, "step", i) = {}
            /\ StepsBeforeQueries(cs)

\* C16 amended: in every completed step EV.step is called exactly once for
\* each port occupied at the start of the call, except that a port with a
\* negative action on a station that is not bidirectional is not stepped at
\* all; an action of 0 steps the vehicle with 0 A; no empty port is stepped;
\* every port occupied at the start is asked is_departing once, after all
\* the EV.step calls.
C16_OccupiedSteppedUnlessNotDischarged ==
    StepCompleted =>
        LET cs == VehicleCalls(last)
        IN  /\ \A i \in Occupied(last.evs_before) \ NotDischarged :
                  /\ Cardinality(CallsOf(cs, "step", i)) = 1
                  /\ last.trace[i].action = 0 =>
                        \A k \in CallsOf(cs, "step", i) : cs[k].arg = 0
            /\ \A i \in NotDischarged : CallsOf(cs, "step", i) = {}
            /\ \A i \in Empty(last.evs_before) :
                  /\ CallsOf(cs, "step", i) = {}
                  /\ CallsOf(cs, "is_departing", i) = {}
            /\ \A i \in Occupied(last.evs_before) :
                  Cardinality(CallsOf(cs, "is_departing", i)) = 1
            /\ StepsBeforeQueries(cs)

\* a completed step of a full two-port station that is not bidirectional:
\* port 0 is stepped, port 1 has a negative action and is not stepped, both
\* vehicles are asked is_departing and the one of port 1 departs
C16_Witness ==
    /\ StepCompleted
    /\ ~bi_directional
    /\ n_ports = 2
    /\ Occupied(last.evs_before) = {0, 1}
    /\ last.trace[0].stepped
    /\ last.trace[1].action < 0
    /\ ~last.trace[1].stepped
    /\ Len(VehicleCalls(last)) = 3
    /\ last.departs[1]

\* C17: the timestep counter is 0 after construction and after reset; a
\* completed step asks every is_departing with the counter as it was before
\* the call and then adds exactly one to it, so the k-th completed step
\* asks with k-1 and leaves k; a step that fails, spawn_ev, get_state and
\* get_avg_user_satisfaction leave the counter alone.
C17_CounterAdvance ==
    /\ current_step = 0
    /\ [][/\ last'.op = "reset" => current_step' = 0
          /\ (last'.op = "step" /\ last'.err = "none") =>
                LET cs == VehicleCalls(last')
                IN  /\ current_step' = current_step + 1
                    /\ last'.step_before = current_step
                    /\ \A k \in 1 .. Len(cs) :
                          cs[k].call = "is_departing"
                              => cs[k].arg = current_step
          /\ (last'.op = "step" /\ last'.err # "none") =>
                UNCHANGED current_step
          /\ last'.op \in {"spawn_ev", "get_state",
                           "get_avg_user_satisfaction"} =>
                UNCHANGED current_step]_vars

\* the second completed step of an episode: its vehicle was asked
\* is_departing with timestep 1, left, and the counter is 2
C17_Witness ==
    /\ StepCompleted
    /\ calls = 2
    /\ current_step = 2
    /\ last.step_before = 1
    /\ \E k \in 1 .. Len(VehicleCalls(last)) :
          /\ VehicleCalls(last)[k].call = "is_departing"
          /\ VehicleCalls(last)[k].arg = 1
    /\ Len(last.user_satisfaction) = 1

\* what the ports of a step call earned, from what the vehicles answered:
\* |actual power| x charge_price for a positive action, |actual power| x
\* discharge_price for a negative one, nothing for an action of 0
PortEarnings(call, charge_price, discharge_price) ==
    [i \in Ports |->
        IF call.trace[i].action > 0
        THEN Abs(call.trace[i].actual_power) * charge_price
        ELSE IF call.trace[i].action < 0
        THEN Abs(call.trace[i].actual_power) * discharge_price
        ELSE 0]

\* C18: the profit a completed step returns is the sum over the ports of
\* |actual power| x charge_price (positive action) or |actual power| x
\* discharge_price (negative action); total_profits is 0 after construction
\* and after reset, grows by the returned profit with every completed step
\* and is changed by nothing else, so it is the sum of the profits returned
\* by the completed steps since construction or the last reset.
C18_ProfitBookkeeping ==
    /\ total_profits = 0
    /\ [][/\ last'.op = "reset" => total_profits' = 0
          /\ (last'.op = "step" /\ last'.err = "none") =>
                /\ last'.profit =
                       Sum(PortEarnings(last', current_charge_price',
                                        current_discharge_price'))
                /\ total_profits' = total_profits + last'.profit
          /\ (last'.op = "step" /\ last'.err # "none") =>
                UNCHANGED total_profits
          /\ last'.op = "spawn_ev" => UNCHANGED total_profits]_vars

\* the second completed step of an episode on a bi_directional station: one
\* port charged, the other discharged, and total_profits holds the profit of
\* both steps
C18_Witness ==
    /\ StepCompleted
    /\ bi_directional
    /\ n_ports = 2
    /\ current_step = 2
    /\ \E i, j \in Ports :
          /\ last.trace[i].action > 0 /\ last.trace[i].actual_power > 0
          /\ last.trace[j].action < 0 /\ last.trace[j].actual_power < 0
    /\ last.profit > 0
    /\ total_profits > last.profit

\* the occupied ports that the last step asked to charge
ChargeAsked ==
    {i \in Ports : /\ last.trace[i].reached
                   /\ last.trace[i].action > 0
                   /\ last.trace[i].stepped}

\* the port at which the last step raised
RaisedAt(i) ==
    /\ last.err # "none"
    /\ last.trace[i].reached
    /\ \A j \in Ports : j > i => ~last.trace[j].reached

\* C19: for every port with a positive action that passed the assertion of
\* line 142, the charging current requested from the vehicle is 0 or lies
\* between min_charge_current and max_charge_current: it is action x
\* max_charge_current, replaced by 0 when that is below min_charge_current;
\* the vehicle is then stepped with 0 and the step does not raise at that
\* port.
C19_ChargeRequest ==
    StepEntered =>
        \A i \in Ports :
            (/\ last.trace[i].reached
             /\ last.trace[i].action > 0
             /\ last.trace[i].action <= Scale) =>
                LET asked == last.trace[i].action * max_charge_current
                    req == last.trace[i].req
                IN  /\ i \in ChargeAsked
                    /\ \/ req = 0
                       \/ /\ req >= min_charge_current * Scale
                          /\ req <= max_charge_current * Scale
                    /\ asked >= min_charge_current * Scale => req = asked
                    /\ asked < min_charge_current * Scale =>
                          /\ req = 0
                          /\ ~RaisedAt(i)

\* a completed step of a full two-port station: one port asked for less
\* than min_charge_current and its vehicle was stepped with 0, the other
\* port charged
C19_Witness ==
    /\ StepCompleted
    /\ n_ports = 2
    /\ \E i, j \in ChargeAsked :
          /\ last.trace[i].action * max_charge_current > 0
          /\ last.trace[i].action * max_charge_current
                < min_charge_current * Scale
          /\ last.trace[i].req = 0
          /\ last.trace[j].req >= min_charge_current * Scale
          /\ last.trace[j].actual_amps > 0

====
